---- MODULE Spec2Model ----
(***************************************************************************)
(* State-machine model of src/index.tsx: the Spanish-English Learning Hub. *)
(* One App with three tabs (Dictionary, Practice, Vocabulary); Practice    *)
(* holds the TextCorrection and PronunciationPractice sub-views.  Every    *)
(* component instance owns its React state; every handler is one atomic    *)
(* step (React batches the state updates of one event or one promise       *)
(* continuation), and the external API answers outstanding requests in     *)
(* any order.                                                              *)
(***************************************************************************)
EXTENDS Naturals, Sequences, FiniteSets

\* ------------------------------------------------------------- bounds
MaxLen == 1
MaxRequests == 2
MaxMounts == 3

\* ------------------------------------------------------------- values
\* Text typed or transcribed: a sequence of characters, one of them blank.
Chars == {" ", "a"}

RECURSIVE TextsUpTo(_)
TextsUpTo(n) ==
    IF n = 0 THEN {<<>>}
    ELSE TextsUpTo(n - 1) \cup
         {Append(s, c) : s \in {t \in TextsUpTo(n - 1) : Len(t) = n - 1}, c \in Chars}

Texts == TextsUpTo(MaxLen)

IsSpace(c) == c = " "

\* String.prototype.trim: drop the leading and the trailing white space.
RECURSIVE TrimLeft(_)
TrimLeft(s) ==
    IF s # <<>> /\ IsSpace(Head(s)) THEN TrimLeft(Tail(s)) ELSE s

RECURSIVE TrimRight(_)
TrimRight(s) ==
    IF s # <<>> /\ IsSpace(s[Len(s)]) THEN TrimRight(SubSeq(s, 1, Len(s) - 1)) ELSE s

\* Mutation of Trim: the guard tests the raw input.
TrimIdentity(s) == s

Trim(s) == TrimRight(TrimLeft(s))

\* JavaScript values held in result / corrections, named by what they are.
JsNull == "null"
JsUndefined == "undefined"
JsEmptyObject == "{}"
JsEntry == "{translation}"
JsNoCorrections == "{corrections:[]}"
JsEmptyArray == "[]"

\* JavaScript truthiness of a value, as used by {result && ...}: objects and
\* arrays (the empty array too) are truthy, null and undefined are not.
Truthy(v) == v \notin {JsNull, JsUndefined}

\* response.text of a resolved generateContent call: a string, or undefined.
UndefinedText == "<undefined>"

\* JavaScript truthiness of a string state, as used by {error && ...},
\* {feedback && ...}: the empty string and undefined are falsy.
TruthyText(t) == t \notin {"", UndefinedText}
ReplyTexts ==
    { UndefinedText, "not json", "null", "{}", "{\"translation\":\"hello\"}",
      "{\"corrections\":[]}" }

\* What the API can do with a request: reject it, or resolve with a text.
Outcomes ==
    { [rejected |-> TRUE, text |-> UndefinedText] } \cup
    { [rejected |-> FALSE, text |-> t] : t \in ReplyTexts }

\* JSON.parse(text): throws on undefined and on text that is not JSON.
JSONParseThrows(text) == text \in {UndefinedText, "not json"}

JSONParse(text) ==
    CASE text = "null" -> JsNull
      [] text = "{}" -> JsEmptyObject
      [] text = "{\"translation\":\"hello\"}" -> JsEntry
      [] text = "{\"corrections\":[]}" -> JsNoCorrections
      [] OTHER -> JsUndefined

\* data.corrections: a TypeError on null, undefined when the field is absent.
CorrectionsThrows(data) == data \in {JsNull, JsUndefined}

CorrectionsOf(data) ==
    IF data = JsNoCorrections THEN JsEmptyArray ELSE JsUndefined

SearchErrorMessage == "Sorry, I couldn't find that. Please try another word."
CheckErrorMessage == "Could not process the text. Please try again."
FeedbackErrorMessage == "Sorry, couldn't get feedback right now."

Tabs == {"dictionary", "practice", "vocabulary"}
Modes == {"text", "voice"}

\* -------------------------------------------------------------- state
VARIABLES
    ai,                     \* the module-level client was constructed
    SpeechRecognition,      \* window.SpeechRecognition || webkitSpeechRecognition
    activeTab,              \* App state
    Dictionary,             \* state of the Dictionary instance (inst = 0: none)
    Practice,               \* state of the Practice instance
    TextCorrection,         \* state of the TextCorrection instance
    PronunciationPractice,  \* state of the PronunciationPractice instance
    Vocabulary,             \* state of the Vocabulary instance
    recog,                  \* the SpeechRecognition object each instance created
    requests,               \* generateContent calls not yet settled
    sent,                   \* generateContent calls made so far
    accepted,               \* handler runs that passed their guard so far
    mounts,                 \* stateful view instances created so far
    heardFor,               \* request issued for the transcript now held (0: none)
    shownFor,               \* request whose settlement feedback now holds (0: none)
    last                    \* the handler that ran last, with its input

vars ==
    << ai, SpeechRecognition, activeTab, Dictionary, Practice, TextCorrection,
       PronunciationPractice, Vocabulary, recog, requests, sent, accepted,
       mounts, heardFor, shownFor, last >>

NoRequest == [id |-> 0, view |-> "none", inst |-> 0]
NoOutcome == [rejected |-> FALSE, text |-> UndefinedText]

Event(op, text, req, reply) ==
    [op |-> op, text |-> text, req |-> req, reply |-> reply]

\* useState initial values of each component; inst = 0 stands for "not mounted".
DictionaryInit(i) ==
    [inst |-> i, query |-> <<>>, loading |-> FALSE, error |-> "", result |-> JsNull]

TextCorrectionInit(i) ==
    [inst |-> i, text |-> <<>>, loading |-> FALSE, error |-> "", corrections |-> JsNull]

\* The mount effect has run: recognition is set when the browser supports it.
PronunciationPracticeInit(i, supported) ==
    [inst |-> i, isRecording |-> FALSE, transcribedText |-> <<>>, feedback |-> "",
     loading |-> FALSE, recognition |-> (i # 0 /\ supported)]

PracticeInit(m) == [mounted |-> m, mode |-> "text"]

VocabularyInit(m) == [mounted |-> m]

\* The components App and Practice render for a tab and a mode.
Render(client, tab, mode) ==
    IF ~client THEN {}
    ELSE (IF tab = "dictionary" THEN {"Dictionary"} ELSE {}) \cup
         (IF tab = "practice"
            THEN {"Practice"} \cup
                 (IF mode = "text" THEN {"TextCorrection"} ELSE {}) \cup
                 (IF mode = "voice" THEN {"PronunciationPractice"} ELSE {})
            ELSE {}) \cup
         (IF tab = "vocabulary" THEN {"Vocabulary"} ELSE {})

Stateful == {"Dictionary", "TextCorrection", "PronunciationPractice"}

\* React reconciliation from the rendered set `old` to the rendered set `new`:
\* a component that stays keeps its state, one that appears is mounted fresh
\* (with the next instance number), one that disappears is unmounted.
Reconcile(old, new) ==
    LET i == mounts + 1 IN
    /\ (new \ old) \cap Stateful # {} => mounts < MaxMounts
    /\ mounts' = IF (new \ old) \cap Stateful # {} THEN i ELSE mounts
    /\ Dictionary' =
         IF "Dictionary" \notin new THEN DictionaryInit(0)
         ELSE IF "Dictionary" \in old THEN Dictionary ELSE DictionaryInit(i)
    /\ TextCorrection' =
         IF "TextCorrection" \notin new THEN TextCorrectionInit(0)
         ELSE IF "TextCorrection" \in old THEN TextCorrection ELSE TextCorrectionInit(i)
    /\ PronunciationPractice' =
         IF "PronunciationPractice" \notin new THEN PronunciationPracticeInit(0, FALSE)
         ELSE IF "PronunciationPractice" \in old THEN PronunciationPractice
         ELSE PronunciationPracticeInit(i, SpeechRecognition)
    /\ recog' =
         IF "PronunciationPractice" \in new \ old /\ SpeechRecognition
         THEN [recog EXCEPT ![i] = "idle"] ELSE recog
    /\ Vocabulary' =
         IF "Vocabulary" \notin new THEN VocabularyInit(FALSE)
         ELSE IF "Vocabulary" \in old THEN Vocabulary ELSE VocabularyInit(TRUE)
    /\ heardFor' = IF "PronunciationPractice" \in new \cap old THEN heardFor ELSE 0
    /\ shownFor' = IF "PronunciationPractice" \in new \cap old THEN shownFor ELSE 0

Init ==
    /\ ai \in BOOLEAN
    /\ SpeechRecognition \in BOOLEAN
    /\ activeTab = "dictionary"
    /\ Dictionary = DictionaryInit(IF ai THEN 1 ELSE 0)
    /\ Practice = PracticeInit(FALSE)
    /\ TextCorrection = TextCorrectionInit(0)
    /\ PronunciationPractice = PronunciationPracticeInit(0, FALSE)
    /\ Vocabulary = VocabularyInit(FALSE)
    /\ recog = [i \in 1..MaxMounts |-> "none"]
    /\ requests = {}
    /\ sent = 0
    /\ accepted = 0
    /\ mounts = IF ai THEN 1 ELSE 0
    /\ heardFor = 0
    /\ shownFor = 0
    /\ last = Event("render", <<>>, NoRequest, NoOutcome)

\* ------------------------------------------------------ tabs and modes
\* App: a tab button's onClick, setActiveTab(t), and the render that follows.
SetActiveTab(t) ==
    /\ ai
    /\ activeTab' = t
    /\ Practice' = IF t = "practice"
                     THEN (IF Practice.mounted THEN Practice ELSE PracticeInit(TRUE))
                     ELSE PracticeInit(FALSE)
    /\ Reconcile(Render(ai, activeTab, Practice.mode), Render(ai, t, Practice'.mode))
    /\ last' = Event("setActiveTab", <<>>, NoRequest, NoOutcome)
    /\ UNCHANGED << ai, SpeechRecognition, requests, sent, accepted >>

\* Practice: a sub-tab button's onClick, setMode(m), and the render that follows.
SetMode(m) ==
    /\ Practice.mounted
    /\ Practice' = [Practice EXCEPT !.mode = m]
    /\ Reconcile(Render(ai, activeTab, Practice.mode), Render(ai, activeTab, m))
    /\ last' = Event("setMode", <<>>, NoRequest, NoOutcome)
    /\ UNCHANGED << ai, SpeechRecognition, activeTab, requests, sent, accepted >>

\* ------------------------------------------------------- the requests
\* ai.models.generateContent(...) called by instance `inst` of view `view`.
NewRequest(view, inst) == [id |-> sent + 1, view |-> view, inst |-> inst]

\* Mutation of Delivered: the state lives outside the instance, so a
\* settlement reaches whichever instance of the view is mounted.
DeliveredToMounted(inst, current) == current # 0

\* React drops a state update addressed to an instance that is no longer
\* mounted: a settlement reaches only the instance that issued the request.
Delivered(inst, current) == current # 0 /\ inst = current

\* ---------------------------------------------------------- Dictionary
\* <input onChange>: setQuery(e.target.value).
SetQuery(v) ==
    /\ Dictionary.inst # 0
    /\ Dictionary' = [Dictionary EXCEPT !.query = v]
    /\ last' = Event("setQuery", <<>>, NoRequest, NoOutcome)
    /\ UNCHANGED << ai, SpeechRecognition, activeTab, Practice, TextCorrection,
                    PronunciationPractice, Vocabulary, recog, requests, sent,
                    accepted, mounts, heardFor, shownFor >>

\* Mutation of SearchButtonEnabled: the button is never disabled.
SearchButtonAlways(loading) == TRUE

\* <button disabled={loading}>: the Search button takes a click.
SearchButtonEnabled(loading) == ~loading

\* handleSearch's guard: if (!query.trim() || !ai) return.
SearchAccepted(query, client) == Trim(query) # <<>> /\ client

\* handleSearch up to its await: the three state updates before the call.
SearchStarted(st) == [st EXCEPT !.loading = TRUE, !.error = "", !.result = JsNull]

\* Mutation of SearchSettled: JSON.parse sits outside the try, so a reply
\* that does not parse ends the handler before any update.
SearchSettledUncaughtParse(st, o) ==
    IF o.rejected THEN [st EXCEPT !.error = SearchErrorMessage, !.loading = FALSE]
    ELSE IF JSONParseThrows(o.text) THEN st
    ELSE [st EXCEPT !.result = JSONParse(o.text), !.loading = FALSE]

\* handleSearch after its await: try / catch / finally on the outcome.
SearchSettled(st, o) ==
    IF o.rejected \/ JSONParseThrows(o.text)
    THEN [st EXCEPT !.error = SearchErrorMessage, !.loading = FALSE]
    ELSE [st EXCEPT !.result = JSONParse(o.text), !.loading = FALSE]

\* A click on Search: handleSearch runs to its await.
HandleSearch ==
    /\ Dictionary.inst # 0
    /\ SearchButtonEnabled(Dictionary.loading)
    /\ last' = Event("handleSearch", <<>>, NoRequest, NoOutcome)
    /\ IF SearchAccepted(Dictionary.query, ai)
       THEN /\ sent < MaxRequests
            /\ Dictionary' = SearchStarted(Dictionary)
            /\ requests' = requests \cup
                 {NewRequest("dictionary", Dictionary.inst)}
            /\ sent' = sent + 1
            /\ accepted' = accepted + 1
       ELSE UNCHANGED << Dictionary, requests, sent, accepted >>
    /\ UNCHANGED << ai, SpeechRecognition, activeTab, Practice, TextCorrection,
                    PronunciationPractice, Vocabulary, recog, mounts, heardFor,
                    shownFor >>

\* ------------------------------------------------------ TextCorrection
\* <textarea onChange>: setText(e.target.value).
SetText(v) ==
    /\ TextCorrection.inst # 0
    /\ TextCorrection' = [TextCorrection EXCEPT !.text = v]
    /\ last' = Event("setText", <<>>, NoRequest, NoOutcome)
    /\ UNCHANGED << ai, SpeechRecognition, activeTab, Dictionary, Practice,
                    PronunciationPractice, Vocabulary, recog, requests, sent,
                    accepted, mounts, heardFor, shownFor >>

\* <button disabled={loading}>: the Check Text button takes a click.
CheckButtonEnabled(loading) == ~loading

\* handleCheck's guard: if (!text.trim() || !ai) return.
CheckAccepted(text, client) == Trim(text) # <<>> /\ client

\* handleCheck up to its await.
CheckStarted(st) == [st EXCEPT !.loading = TRUE, !.error = "", !.corrections = JsNull]

\* handleCheck after its await: JSON.parse, then data.corrections, both in the try.
CheckSettled(st, o) ==
    IF \/ o.rejected
       \/ JSONParseThrows(o.text)
       \/ CorrectionsThrows(JSONParse(o.text))
    THEN [st EXCEPT !.error = CheckErrorMessage, !.loading = FALSE]
    ELSE [st EXCEPT !.corrections = CorrectionsOf(JSONParse(o.text)),
                    !.loading = FALSE]

\* A click on Check Text: handleCheck runs to its await.
HandleCheck ==
    /\ TextCorrection.inst # 0
    /\ CheckButtonEnabled(TextCorrection.loading)
    /\ last' = Event("handleCheck", <<>>, NoRequest, NoOutcome)
    /\ IF CheckAccepted(TextCorrection.text, ai)
       THEN /\ sent < MaxRequests
            /\ TextCorrection' = CheckStarted(TextCorrection)
            /\ requests' = requests \cup
                 {NewRequest("text", TextCorrection.inst)}
            /\ sent' = sent + 1
            /\ accepted' = accepted + 1
       ELSE UNCHANGED << TextCorrection, requests, sent, accepted >>
    /\ UNCHANGED << ai, SpeechRecognition, activeTab, Dictionary, Practice,
                    PronunciationPractice, Vocabulary, recog, mounts, heardFor,
                    shownFor >>

\* ----------------------------------------------- PronunciationPractice
\* The browser's recognizer, one per instance, created by the mount effect and
\* never stopped by an unmount (the effect returns no cleanup):
\*   "none" no object, "idle" not started, "listening" started,
\*   "stopping" stop() called, "ending" result or error delivered, end pending.
RecogStates == {"none", "idle", "listening", "stopping", "ending"}

\* getFeedback's guard: if (!transcript || !ai) return.
FeedbackAccepted(transcript, client) == transcript # <<>> /\ client

\* getFeedback up to its await.
FeedbackStarted(st) == [st EXCEPT !.loading = TRUE, !.feedback = ""]

\* getFeedback after its await: try / catch / finally on the outcome.
FeedbackSettled(st, o) ==
    IF o.rejected
    THEN [st EXCEPT !.feedback = FeedbackErrorMessage, !.loading = FALSE]
    ELSE [st EXCEPT !.feedback = o.text, !.loading = FALSE]

\* A click on Start / Stop Recording: toggleRecording.  recognition.start()
\* throws on a recognizer that has not ended yet, after the two clearing
\* updates were queued and before setIsRecording.
ToggleRecording ==
    LET i == PronunciationPractice.inst IN
    /\ i # 0
    /\ PronunciationPractice.recognition
    /\ IF PronunciationPractice.isRecording
       THEN /\ recog' = [recog EXCEPT ![i] = IF @ = "listening" THEN "stopping" ELSE @]
            /\ PronunciationPractice' =
                 [PronunciationPractice EXCEPT !.isRecording = FALSE]
            /\ UNCHANGED << heardFor, shownFor >>
       ELSE /\ recog' = [recog EXCEPT ![i] = IF @ = "idle" THEN "listening" ELSE @]
            /\ PronunciationPractice' =
                 [PronunciationPractice EXCEPT !.transcribedText = <<>>,
                                               !.feedback = "",
                                               !.isRecording = (recog[i] = "idle")]
            /\ heardFor' = 0
            /\ shownFor' = 0
    /\ last' = Event("toggleRecording", <<>>, NoRequest, NoOutcome)
    /\ UNCHANGED << ai, SpeechRecognition, activeTab, Dictionary, Practice,
                    TextCorrection, Vocabulary, requests, sent, accepted, mounts >>

\* recog.onresult of the recognizer of instance i (mounted or not):
\* setTranscribedText(transcript); getFeedback(transcript).
OnResult(i, transcript) ==
    LET here == Delivered(i, PronunciationPractice.inst)
        ok == FeedbackAccepted(transcript, ai)
        heard == [PronunciationPractice EXCEPT !.transcribedText = transcript]
    IN
    /\ recog[i] \in {"listening", "stopping"}
    /\ recog' = [recog EXCEPT ![i] = "ending"]
    /\ last' = Event("onresult", transcript, NoRequest, NoOutcome)
    /\ IF ok
       THEN /\ sent < MaxRequests
            /\ requests' = requests \cup {NewRequest("voice", i)}
            /\ sent' = sent + 1
            /\ accepted' = accepted + 1
       ELSE UNCHANGED << requests, sent, accepted >>
    /\ PronunciationPractice' =
         IF ~here THEN PronunciationPractice
         ELSE IF ok THEN FeedbackStarted(heard) ELSE heard
    /\ heardFor' = IF ~here THEN heardFor ELSE IF ok THEN sent + 1 ELSE 0
    /\ shownFor' = IF here /\ ok THEN 0 ELSE shownFor
    /\ UNCHANGED << ai, SpeechRecognition, activeTab, Dictionary, Practice,
                    TextCorrection, Vocabulary, mounts >>

\* recog.onerror: setIsRecording(false); the end event follows.
OnError(i) ==
    /\ recog[i] \in {"listening", "stopping"}
    /\ recog' = [recog EXCEPT ![i] = "ending"]
    /\ PronunciationPractice' =
         IF Delivered(i, PronunciationPractice.inst)
         THEN [PronunciationPractice EXCEPT !.isRecording = FALSE]
         ELSE PronunciationPractice
    /\ last' = Event("onerror", <<>>, NoRequest, NoOutcome)
    /\ UNCHANGED << ai, SpeechRecognition, activeTab, Dictionary, Practice,
                    TextCorrection, Vocabulary, requests, sent, accepted, mounts,
                    heardFor, shownFor >>

\* recog.onend: setIsRecording(false); the recognizer can be started again.
OnEnd(i) ==
    /\ recog[i] \in {"listening", "stopping", "ending"}
    /\ recog' = [recog EXCEPT ![i] = "idle"]
    /\ PronunciationPractice' =
         IF Delivered(i, PronunciationPractice.inst)
         THEN [PronunciationPractice EXCEPT !.isRecording = FALSE]
         ELSE PronunciationPractice
    /\ last' = Event("onend", <<>>, NoRequest, NoOutcome)
    /\ UNCHANGED << ai, SpeechRecognition, activeTab, Dictionary, Practice,
                    TextCorrection, Vocabulary, requests, sent, accepted, mounts,
                    heardFor, shownFor >>

\* --------------------------------------------------------- settlement
\* Mutation of Resent: a rejected call is retried once more.
ResentOnFailure(r, o) ==
    IF o.rejected /\ sent < MaxRequests THEN {[r EXCEPT !.id = sent + 1]} ELSE {}

\* The promise of request r settles with outcome o and the handler that
\* awaited it runs to its end; nothing is sent again.
Resent(r, o) == {}

Settle(r, o) ==
    /\ r \in requests
    /\ requests' = (requests \ {r}) \cup Resent(r, o)
    /\ sent' = sent + Cardinality(Resent(r, o))
    /\ Dictionary' =
         IF r.view = "dictionary" /\ Delivered(r.inst, Dictionary.inst)
         THEN SearchSettled(Dictionary, o) ELSE Dictionary
    /\ TextCorrection' =
         IF r.view = "text" /\ Delivered(r.inst, TextCorrection.inst)
         THEN CheckSettled(TextCorrection, o) ELSE TextCorrection
    /\ PronunciationPractice' =
         IF r.view = "voice" /\ Delivered(r.inst, PronunciationPractice.inst)
         THEN FeedbackSettled(PronunciationPractice, o) ELSE PronunciationPractice
    /\ shownFor' =
         IF r.view = "voice" /\ Delivered(r.inst, PronunciationPractice.inst)
         THEN r.id ELSE shownFor
    /\ last' = Event("settle", <<>>, r, o)
    /\ UNCHANGED << ai, SpeechRecognition, activeTab, Practice, Vocabulary, recog,
                    accepted, mounts, heardFor >>

Next ==
    \/ \E t \in Tabs : SetActiveTab(t)
    \/ \E m \in Modes : SetMode(m)
    \/ \E v \in Texts : SetQuery(v)
    \/ HandleSearch
    \/ \E v \in Texts : SetText(v)
    \/ HandleCheck
    \/ ToggleRecording
    \/ \E i \in 1..MaxMounts, t \in Texts : OnResult(i, t)
    \/ \E i \in 1..MaxMounts : OnError(i)
    \/ \E i \in 1..MaxMounts : OnEnd(i)
    \/ \E r \in requests, o \in Outcomes : Settle(r, o)

Spec == Init /\ [][Next]_vars

\* -------------------------------------------------------------- claims
Mine(view, inst) == {r \in requests : r.view = view /\ r.inst = inst}

OfView(view) == {r \in requests : r.view = view}

\* C1 as stated: at most one request of the Dictionary view and at most one of
\* the TextCorrection view is outstanding, requests of earlier instances of the
\* view counted.
C1_OnePerViewCountingEarlierInstances ==
    /\ Cardinality(OfView("dictionary")) <= 1
    /\ Cardinality(OfView("text")) <= 1

\* C1 amended: at most one request issued by the mounted Dictionary instance
\* and at most one issued by the mounted TextCorrection instance is
\* outstanding; requests of earlier instances may be outstanding beside it.
C1_OnePerMountedInstance ==
    /\ Cardinality(Mine("dictionary", Dictionary.inst)) <= 1
    /\ Cardinality(Mine("text", TextCorrection.inst)) <= 1

\* C1 witness: the mounted Dictionary waits for its own request while a request
\* of an earlier Dictionary instance is still unanswered.
C1_Witness ==
    /\ Dictionary.inst # 0
    /\ Dictionary.loading
    /\ Mine("dictionary", Dictionary.inst) # {}
    /\ OfView("dictionary") \ Mine("dictionary", Dictionary.inst) # {}

\* C2 as stated: in PronunciationPractice a second getFeedback request is
\* never started while an earlier one of the same instance is unanswered.
C2_OneFeedbackRequest ==
    PronunciationPractice.inst # 0 =>
        Cardinality(Mine("voice", PronunciationPractice.inst)) <= 1

\* The settlement that ran last reached the instance that is mounted now.
SettledHere(view, inst) ==
    /\ last.op = "settle"
    /\ last.req.view = view
    /\ inst # 0
    /\ last.req.inst = inst

\* C3: after a failed call (the request rejected, the reply text not JSON, or
\* in TextCorrection the parsed reply without an object to read) the view is
\* in its error state: Dictionary and TextCorrection show the fixed message,
\* hold no result and are not loading; PronunciationPractice holds the fixed
\* feedback message and is not loading.
C3_FailureEndsInErrorState ==
    /\ ( /\ SettledHere("dictionary", Dictionary.inst)
         /\ last.reply.rejected \/ last.reply.text \in {UndefinedText, "not json"} )
       => /\ Dictionary.error = SearchErrorMessage
          /\ Dictionary.result = JsNull
          /\ ~Dictionary.loading
    /\ ( /\ SettledHere("text", TextCorrection.inst)
         /\ last.reply.rejected \/ last.reply.text \in {UndefinedText, "not json", "null"} )
       => /\ TextCorrection.error = CheckErrorMessage
          /\ TextCorrection.corrections = JsNull
          /\ ~TextCorrection.loading
    /\ ( /\ SettledHere("voice", PronunciationPractice.inst)
         /\ last.reply.rejected )
       => /\ PronunciationPractice.feedback = FeedbackErrorMessage
          /\ ~PronunciationPractice.loading

\* C3 witness: the mounted Dictionary has just received a reply that is not
\* JSON and shows the error message.
C3_Witness ==
    /\ SettledHere("dictionary", Dictionary.inst)
    /\ ~last.reply.rejected
    /\ last.reply.text = "not json"
    /\ Dictionary.error = SearchErrorMessage

\* C4 as stated: for each mounted instance, loading is true exactly when a
\* request issued by that instance is outstanding.
C4_LoadingIffOutstanding ==
    /\ Dictionary.inst # 0 =>
         (Dictionary.loading <=> Mine("dictionary", Dictionary.inst) # {})
    /\ TextCorrection.inst # 0 =>
         (TextCorrection.loading <=> Mine("text", TextCorrection.inst) # {})
    /\ PronunciationPractice.inst # 0 =>
         (PronunciationPractice.loading <=>
            Mine("voice", PronunciationPractice.inst) # {})

\* C5: the number of requests sent equals the number of accepted Search
\* clicks, accepted Check clicks and non-empty recognition results.
C5_OneRequestPerAcceptedAction == sent = accepted

\* C5 witness: two actions were accepted, both requests are settled, the last
\* one by a rejection, and nothing is outstanding.
C5_Witness ==
    /\ accepted = 2
    /\ requests = {}
    /\ last.op = "settle"
    /\ last.reply.rejected

MountedTabs ==
    {t \in Tabs : \/ t = "dictionary" /\ Dictionary.inst # 0
                  \/ t = "practice" /\ Practice.mounted
                  \/ t = "vocabulary" /\ Vocabulary.mounted}

MountedInsts == {Dictionary.inst, TextCorrection.inst, PronunciationPractice.inst} \ {0}

\* C6: with the client initialised exactly one of the three tab views is
\* mounted, the one activeTab names; and a settlement of a request whose
\* issuing instance is no longer mounted changes no state of a mounted view.
C6_OneViewOwnsState ==
    /\ [](ai => activeTab \in Tabs /\ MountedTabs = {activeTab})
    /\ [][ \A r \in requests \ requests' :
             r.inst \notin MountedInsts =>
               UNCHANGED << Dictionary, Practice, TextCorrection,
                            PronunciationPractice, Vocabulary >> ]_vars

\* C6 witness: a reply for an earlier Dictionary instance has just arrived
\* while the mounted Dictionary instance waits for its own request.
C6_Witness ==
    /\ last.op = "settle"
    /\ last.req.view = "dictionary"
    /\ Dictionary.inst # 0
    /\ last.req.inst # Dictionary.inst
    /\ Dictionary.loading

Blank(s) == \A k \in 1..Len(s) : s[k] = " "

\* C7: a handler whose guard rejects (blank query or text, empty transcript,
\* no client) sends nothing and leaves loading, error and the earlier result,
\* corrections or feedback as they were; without a client nothing is mounted
\* and no request is ever sent.
C7_RejectedActionIsNoOp ==
    /\ [](~ai => sent = 0 /\ requests = {} /\ MountedTabs = {} /\ MountedInsts = {})
    /\ [][ /\ (last'.op = "handleSearch" /\ (Blank(Dictionary.query) \/ ~ai))
              => UNCHANGED << requests, sent, Dictionary >>
           /\ (last'.op = "handleCheck" /\ (Blank(TextCorrection.text) \/ ~ai))
              => UNCHANGED << requests, sent, TextCorrection >>
           /\ (last'.op = "onresult" /\ (last'.text = <<>> \/ ~ai))
              => /\ UNCHANGED << requests, sent >>
                 /\ PronunciationPractice'.loading = PronunciationPractice.loading
                 /\ PronunciationPractice'.feedback = PronunciationPractice.feedback
         ]_vars

\* C7 witness: Search was clicked on a query of one blank while the result of
\* an earlier search is displayed; the result is still there.
C7_Witness ==
    /\ last.op = "handleSearch"
    /\ Dictionary.query = << " " >>
    /\ Truthy(Dictionary.result)
    /\ ~Dictionary.loading
    /\ requests = {}

\* C8 as stated: once a request of the mounted Dictionary or TextCorrection
\* instance is answered, exactly one of result card and error message is
\* displayed; while loading neither is.
C8_ExactlyOneOutcomeDisplayed ==
    /\ SettledHere("dictionary", Dictionary.inst)
       => (Truthy(Dictionary.result) <=> ~TruthyText(Dictionary.error))
    /\ SettledHere("text", TextCorrection.inst)
       => (Truthy(TextCorrection.corrections) <=> ~TruthyText(TextCorrection.error))
    /\ Dictionary.loading
       => ~Truthy(Dictionary.result) /\ ~TruthyText(Dictionary.error)
    /\ TextCorrection.loading
       => ~Truthy(TextCorrection.corrections) /\ ~TruthyText(TextCorrection.error)

\* C9 as stated: displayed feedback is the settlement of the request issued
\* for the transcript now held in transcribedText.
C9_FeedbackBelongsToAttempt ==
    (PronunciationPractice.inst # 0 /\ TruthyText(PronunciationPractice.feedback))
    => (shownFor # 0 /\ shownFor = heardFor)

====
